---- MODULE Spec2Model ----
(***************************************************************************)
(* The geth EVM wrapper of x/evm/vm/geth/geth.go: NewEVM merges the        *)
(* built-in precompiles of go-ethereum's vm package with the chain's       *)
(* custom precompiles, and the wrapper answers Precompile and              *)
(* ActivePrecompiles from what NewEVM stored.                              *)
(*                                                                         *)
(* Go maps are reference values.  vm.DefaultPrecompiles(rules) hands out   *)
(* one of the vm package's package-level tables, so the variable           *)
(* PrecompiledContracts is that package state and the field precompiles    *)
(* of a wrapper is a reference into it (the name of the table).            *)
(* vm.DefaultActivePrecompiles(rules) hands out a package-level slice      *)
(* literal (len = cap, ascending), so an append copies it.                 *)
(***************************************************************************)
EXTENDS Integers, Sequences, FiniteSets, TLC

VARIABLES
    PrecompiledContracts,  \* package vm: fork name -> (address -> contract)
    customPrecompiles,     \* the mapping the provider returned last (caller-held)
    evms,                  \* the wrappers constructed so far
    built                  \* history: what each NewEVM was given and what it stored

vars == <<PrecompiledContracts, customPrecompiles, evms, built>>

-----------------------------------------------------------------------------
(* Bounds *)

MaxExt == 1

\* the execution contexts of a run, in the order their wrappers are constructed
ExecutionContexts == <<"tx1", "tx2">>

\* Go's nil, shaped like a contract so that it compares with one
Nil == [kind |-> "nil", address |-> <<>>]

\* common.Address, shortened to two bytes
Addrs == {<<0, 1>>, <<0, 9>>, <<1, 0>>}

Forks == {"Homestead", "Berlin"}

ChainConfig == [BerlinBlock |-> 1]

\* heights up to the fork block of ChainConfig
BlockNumbers == 0..ChainConfig.BerlinBlock

BlockContexts == [BlockNumber : BlockNumbers, Random : {Nil}]

TxContexts == {[Origin |-> <<0, 9>>]}

Configs == {[NoBaseFee |-> FALSE]}

-----------------------------------------------------------------------------
(* Contracts *)

Builtin(a) == [kind |-> "builtin", address |-> a]

Custom(a) == [kind |-> "custom", address |-> a]

CustomContracts == {Custom(a) : a \in Addrs}

\* Go maps as functions whose domain is the key set
MapSet(m, k, v) == [x \in (DOMAIN m) \cup {k} |-> IF x = k THEN v ELSE m[x]]

MapDelete(m, k) == [x \in (DOMAIN m) \ {k} |-> m[x]]

\* the mappings a provider can return: at most MaxExt entries
ExtensionMappings ==
    UNION {[K -> CustomContracts] : K \in {S \in SUBSET Addrs : Cardinality(S) <= MaxExt}}

\* the orders in which range can visit the keys of a map
RangeOrders(m) ==
    LET n == Cardinality(DOMAIN m)
    IN {s \in [1..n -> DOMAIN m] : \A i, j \in 1..n : i # j => s[i] # s[j]}

-----------------------------------------------------------------------------
(* package vm of go-ethereum *)

PrecompiledContractsHomestead == [a \in {<<0, 1>>} |-> Builtin(a)]

PrecompiledContractsBerlin == [a \in {<<0, 1>>, <<1, 0>>} |-> Builtin(a)]

PrecompiledAddressesHomestead == <<(<<0, 1>>)>>

PrecompiledAddressesBerlin == <<(<<0, 1>>), (<<1, 0>>)>>

Rules(chainConfig, num, isMerge) ==
    [IsBerlin |-> num >= chainConfig.BerlinBlock, IsMerge |-> isMerge]

AllRules == [IsBerlin : BOOLEAN, IsMerge : BOOLEAN]

\* a reference to the package-level table
DefaultPrecompiles(rules) == IF rules.IsBerlin THEN "Berlin" ELSE "Homestead"

DefaultActivePrecompiles(rules) ==
    IF rules.IsBerlin THEN PrecompiledAddressesBerlin ELSE PrecompiledAddressesHomestead

-----------------------------------------------------------------------------
(* bytes.Compare and sort.SliceStable *)

RECURSIVE BytesCompareFrom(_, _, _)
BytesCompareFrom(a, b, i) ==
    IF i > Len(a) /\ i > Len(b) THEN 0
    ELSE IF i > Len(a) THEN -1
    ELSE IF i > Len(b) THEN 1
    ELSE IF a[i] < b[i] THEN -1
    ELSE IF a[i] > b[i] THEN 1
    ELSE BytesCompareFrom(a, b, i + 1)

BytesCompare(a, b) == BytesCompareFrom(a, b, 1)

\* a comparison that reads the address from its last byte
RECURSIVE LittleEndianCompareFrom(_, _, _)
LittleEndianCompareFrom(a, b, i) ==
    IF i < 1 THEN 0
    ELSE IF a[i] < b[i] THEN -1
    ELSE IF a[i] > b[i] THEN 1
    ELSE LittleEndianCompareFrom(a, b, i - 1)

LessLittleEndian(a, b) == LittleEndianCompareFrom(a, b, Len(a)) < 0

Less(a, b) == BytesCompare(a, b) < 0

\* x goes behind every element that is not greater than it
RECURSIVE InsertStable(_, _)
InsertStable(s, x) ==
    IF s = <<>> THEN <<x>>
    ELSE IF Less(x, s[Len(s)]) THEN Append(InsertStable(SubSeq(s, 1, Len(s) - 1), x), s[Len(s)])
    ELSE Append(s, x)

RECURSIVE SortFrom(_, _)
SortFrom(done, rest) ==
    IF rest = <<>> THEN done ELSE SortFrom(InsertStable(done, Head(rest)), Tail(rest))

SliceStable(s) == SortFrom(<<>>, s)

-----------------------------------------------------------------------------
(* NewEVM *)

\* the range loop over customPrecompiles, visiting the keys in `order`
RECURSIVE MergeLoop(_, _, _, _)
MergeLoop(order, custom, precompiles, activePrecompiles) ==
    IF order = <<>> THEN [precompiles |-> precompiles, activePrecompiles |-> activePrecompiles]
    ELSE LET k == Head(order)
             v == custom[k]
         IN MergeLoop(Tail(order), custom, MapSet(precompiles, k, v),
                      Append(activePrecompiles, v.address))

Init ==
    /\ PrecompiledContracts =
         [f \in Forks |-> IF f = "Berlin" THEN PrecompiledContractsBerlin
                          ELSE PrecompiledContractsHomestead]
    /\ customPrecompiles = << >>
    /\ evms = <<>>
    /\ built = <<>>

NewEVM(blockCtx, txCtx, config, custom, order) ==
    LET rules == Rules(ChainConfig, blockCtx.BlockNumber, blockCtx.Random # Nil)
        precompiles == DefaultPrecompiles(rules)
        activePrecompiles == DefaultActivePrecompiles(rules)
        merged == MergeLoop(order, custom, PrecompiledContracts[precompiles], activePrecompiles)
        newEvm == [Context |-> blockCtx, TxContext |-> txCtx, Config |-> config,
                   precompiles |-> precompiles,
                   activePrecompiles |-> SliceStable(merged.activePrecompiles)]
    IN /\ Len(evms) < Len(ExecutionContexts)
       /\ customPrecompiles' = custom
       /\ PrecompiledContracts' = [PrecompiledContracts EXCEPT ![precompiles] = merged.precompiles]
       /\ evms' = Append(evms, newEvm)
       /\ built' = Append(built, [rules |-> rules, custom |-> custom,
                                   precompiles |-> merged.precompiles])

-----------------------------------------------------------------------------
(* The wrapper's methods *)

\* a lookup that goes to the provider's mapping first, as if NewEVM had kept it
PrecompileThroughCustom(e, addr) ==
    IF addr \in DOMAIN customPrecompiles
    THEN [p |-> customPrecompiles[addr], found |-> TRUE]
    ELSE LET table == PrecompiledContracts[e.precompiles]
         IN IF addr \in DOMAIN table THEN [p |-> table[addr], found |-> TRUE]
            ELSE [p |-> Nil, found |-> FALSE]

Precompile(e, addr) ==
    LET table == PrecompiledContracts[e.precompiles]
    IN IF addr \in DOMAIN table THEN [p |-> table[addr], found |-> TRUE]
       ELSE [p |-> Nil, found |-> FALSE]

\* the list recomputed from the argument, as the un-extended wrapper did
ActivePrecompilesFromRules(e, rules) == DefaultActivePrecompiles(rules)

ActivePrecompiles(e, rules) == e.activePrecompiles

CallContext(i) ==
    /\ i \in 1..Len(evms)
    /\ UNCHANGED vars

CallTxContext(i) ==
    /\ i \in 1..Len(evms)
    /\ UNCHANGED vars

CallConfig(i) ==
    /\ i \in 1..Len(evms)
    /\ UNCHANGED vars

CallPrecompile(i, addr) ==
    /\ i \in 1..Len(evms)
    /\ UNCHANGED vars

CallActivePrecompiles(i, rules) ==
    /\ i \in 1..Len(evms)
    /\ UNCHANGED vars

\* delegated to the embedded EVM, which runs a contract the caller looked up
\* and writes nothing of the wrapper
CallRunPrecompiledContract(i, p) ==
    /\ i \in 1..Len(evms)
    /\ \E addr \in Addrs : Precompile(evms[i], addr) = [p |-> p, found |-> TRUE]
    /\ UNCHANGED vars

\* the caller inserts or replaces an entry of the mapping the provider returned
MutateE(k, v) ==
    /\ evms # <<>>
    /\ Cardinality((DOMAIN customPrecompiles) \cup {k}) <= MaxExt
    /\ customPrecompiles' = MapSet(customPrecompiles, k, v)
    /\ UNCHANGED <<PrecompiledContracts, evms, built>>

\* the caller removes an entry of it
DeleteE(k) ==
    /\ evms # <<>>
    /\ k \in DOMAIN customPrecompiles
    /\ customPrecompiles' = MapDelete(customPrecompiles, k)
    /\ UNCHANGED <<PrecompiledContracts, evms, built>>

Next ==
    \/ \E blockCtx \in BlockContexts, txCtx \in TxContexts, config \in Configs,
          custom \in ExtensionMappings :
         \E order \in RangeOrders(custom) : NewEVM(blockCtx, txCtx, config, custom, order)
    \/ \E i \in 1..Len(ExecutionContexts) : CallContext(i)
    \/ \E i \in 1..Len(ExecutionContexts) : CallTxContext(i)
    \/ \E i \in 1..Len(ExecutionContexts) : CallConfig(i)
    \/ \E i \in 1..Len(ExecutionContexts), addr \in Addrs : CallPrecompile(i, addr)
    \/ \E i \in 1..Len(ExecutionContexts), rules \in AllRules : CallActivePrecompiles(i, rules)
    \/ \E i \in 1..Len(ExecutionContexts), p \in CustomContracts \cup {Builtin(a) : a \in Addrs} :
         CallRunPrecompiledContract(i, p)
    \/ \E k \in Addrs, v \in CustomContracts : MutateE(k, v)
    \/ \E k \in Addrs : DeleteE(k)

Spec == Init /\ [][Next]_vars

-----------------------------------------------------------------------------
(* Properties *)

\* the table and the list vm hands out for `rules` before any wrapper was built
BuiltinTable(rules) ==
    IF rules.IsBerlin THEN PrecompiledContractsBerlin ELSE PrecompiledContractsHomestead

Lookup(table, addr) ==
    IF addr \in DOMAIN table THEN [p |-> table[addr], found |-> TRUE]
    ELSE [p |-> Nil, found |-> FALSE]

Elems(s) == {s[n] : n \in 1..Len(s)}

Wrappers == 1..Len(evms)

\* C1: the Active Address List of every wrapper holds each address once.
C1_NoDuplicateAddress ==
    \A i \in Wrappers :
        LET l == ActivePrecompiles(evms[i], built[i].rules)
        IN \A m, n \in 1..Len(l) : m # n => l[m] # l[n]

\* C2: the whole Active Address List of every wrapper, built-in and appended
\* addresses together, is in ascending unsigned byte-wise order.
C2_WholeListAscending ==
    \A i \in Wrappers :
        LET l == ActivePrecompiles(evms[i], built[i].rules)
        IN \A m, n \in 1..Len(l) : m < n => BytesCompare(l[m], l[n]) <= 0

\* a wrapper whose extension address was sorted in between two built-in ones
C2_Witness ==
    \E i \in Wrappers :
        /\ built[i].rules.IsBerlin
        /\ built[i].custom = [a \in {<<0, 9>>} |-> Custom(<<0, 9>>)]
        /\ evms[i].activePrecompiles = <<(<<0, 1>>), (<<0, 9>>), (<<1, 0>>)>>

\* C3: an address of E resolves to E's contract, also when it is a built-in
\* address, and a built-in address that is not in E resolves to the built-in
\* contract.
C3_ExtensionOverrides ==
    \A i \in Wrappers :
        LET E == built[i].custom
            B == BuiltinTable(built[i].rules)
        IN /\ \A a \in DOMAIN E : Precompile(evms[i], a) = [p |-> E[a], found |-> TRUE]
           /\ \A a \in (DOMAIN B) \ (DOMAIN E) :
                 Precompile(evms[i], a) = [p |-> B[a], found |-> TRUE]

\* C4: what NewEVM stores is decided by (R, E) alone: it is what a build with
\* the same R and E stores in a process that has built no wrapper before, in
\* whatever order the entries of E are visited.
C4_BuildIsFunctionOfInputs ==
    \A i \in Wrappers :
        \A order \in RangeOrders(built[i].custom) :
            LET first == MergeLoop(order, built[i].custom, BuiltinTable(built[i].rules),
                                   DefaultActivePrecompiles(built[i].rules))
            IN /\ built[i].precompiles = first.precompiles
               /\ evms[i].activePrecompiles = SliceStable(first.activePrecompiles)

\* C5: constructing another wrapper changes nothing a wrapper returns, and a
\* wrapper exposes only built-in entries and entries of its own E.
C5_TablesArePrivate ==
    \A i \in Wrappers :
        /\ \A a \in Addrs : Precompile(evms[i], a) = Lookup(built[i].precompiles, a)
        /\ DOMAIN built[i].precompiles \subseteq
              (DOMAIN BuiltinTable(built[i].rules)) \cup (DOMAIN built[i].custom)

\* C6: no wrapper operation and no change of the mapping E after construction
\* changes what Precompile and ActivePrecompiles of a wrapper return.
C6_NoOperationChangesResults ==
    [][Len(evms') = Len(evms) =>
         \A i \in Wrappers :
            /\ \A a \in Addrs : Precompile(evms[i], a)' = Precompile(evms[i], a)
            /\ \A rules \in AllRules :
                  ActivePrecompiles(evms[i], rules)' = ActivePrecompiles(evms[i], rules)]_vars

\* the caller has since removed an entry of E that the wrapper still resolves
C6_Witness ==
    /\ evms # <<>>
    /\ \E a \in DOMAIN built[Len(built)].custom :
          /\ a \notin DOMAIN customPrecompiles
          /\ Precompile(evms[Len(evms)], a) =
                [p |-> built[Len(built)].custom[a], found |-> TRUE]

\* C7: for every rules argument ActivePrecompiles returns the list built at
\* construction from the rules of construction and E.
C7_RulesArgumentIgnored ==
    \A i \in Wrappers :
        \A rules \in AllRules :
            \A order \in RangeOrders(built[i].custom) :
                ActivePrecompiles(evms[i], rules) =
                    SliceStable(MergeLoop(order, built[i].custom, << >>,
                                          DefaultActivePrecompiles(built[i].rules)).activePrecompiles)

\* a wrapper with an extension, asked with rules of the other fork
C7_Witness ==
    \E i \in Wrappers :
        \E rules \in AllRules :
            /\ built[i].custom # << >>
            /\ rules.IsBerlin # built[i].rules.IsBerlin
            /\ ActivePrecompiles(evms[i], rules) # DefaultActivePrecompiles(rules)

\* C8: Precompile finds an address exactly when it is a built-in key for R or
\* a key of E, and then returns the stored contract.
C8_FoundIffInMergedTable ==
    \A i \in Wrappers :
        \A a \in Addrs :
            LET r == Precompile(evms[i], a)
            IN /\ r.found <=> a \in (DOMAIN BuiltinTable(built[i].rules)) \cup (DOMAIN built[i].custom)
               /\ ~r.found => r.p = Nil

\* C9: with an empty E the wrapper's table and list are the built-in table and
\* the built-in list for R.
C9_EmptyExtensionIsBuiltin ==
    \A i \in Wrappers :
        built[i].custom = << >> =>
            /\ PrecompiledContracts[evms[i].precompiles] = BuiltinTable(built[i].rules)
            /\ evms[i].activePrecompiles = DefaultActivePrecompiles(built[i].rules)

\* C10: ActivePrecompiles lists an address exactly when Precompile finds it.
C10_ListedIffFound ==
    \A i \in Wrappers :
        \A a \in Addrs :
            a \in Elems(ActivePrecompiles(evms[i], built[i].rules)) <=> Precompile(evms[i], a).found

====
